---- MODULE Spec2Model ----
(***************************************************************************)
(* Model of the lotto-scanner page script (src/app.js).                    *)
(*                                                                         *)
(* The page is one JavaScript event loop: every action below is one turn   *)
(* of that loop (an event handler, a promise continuation or a timer       *)
(* callback) run to its next suspension point.  A scan session is the      *)
(* chain of turns started by captureAndScan or by the native-photo change  *)
(* handler; `sessions` is the bag of the sessions with a turn still to     *)
(* come, and counters record how the others ended.                         *)
(*                                                                         *)
(* Strings of recognised text are sequences of one-character strings.      *)
(*                                                                         *)
(* Three specifications share the variables.  Spec is the event loop; it   *)
(* follows the control flow and the page's widgets and leaves the pixels   *)
(* out.  ParseSpec applies the handling of a recognised text to texts      *)
(* built from pieces.  PreSpec applies the canvas work of the two kinds of *)
(* capture to frames and photos of every size up to a bound; lengths there *)
(* are whole numbers of 1/Unit pixel, so that the fractions are exact.     *)
(***************************************************************************)
EXTENDS Integers, Sequences, FiniteSets, Bags

\* ------------------------------------------------------------- bounds
\* Sessions the model lets the user start.
MaxSessions == 2
\* getUserMedia requests in flight at once.
MaxCamPending == 1
\* Clock steps per reset delay (granularity of Tick).
TicksPerDelay == 1
\* Pieces a recognised text is built from in ParseSpec.
MaxPieces == 5
\* Largest width and height, in pixels, of a frame or photo in PreSpec.
MaxDim == 10

\* ---------------------------------------------------------- constants
\* setTimeout delay of resetScanState, in ms.
ResetDelay == 3000
\* Minimum repetitions of the regular expression's group, {4,}.
MinGroups == 4
\* Maximum digits of one group, \d{1,2}.
MaxDigits == 2

VARIABLES
    stream,          \* `stream` is non-null
    camPending,      \* getUserMedia promises not yet settled
    metaPending,     \* video.onloadedmetadata not yet fired for the stream
    pickerOpen,      \* the native file picker is showing
    isScanning,      \* `isScanning`
    scanBtnDisabled, \* scanBtn.disabled
    pulse,           \* statusText has class 'pulse'
    statusText,      \* statusText.textContent (which message)
    statusColor,     \* statusText.style.color
    resultsActive,   \* resultsArea has class 'active'
    scannedText,     \* what scannedText shows: [kind, draws, raw]
    scannedColor,    \* scannedText.style.color
    sessions,        \* bag of the sessions with a pending step: [pc, text]
    enginesLive,     \* Tesseract workers created and not terminated
    timers,          \* remaining ms of pending resetScanState timeouts
    succeeded,       \* sessions that showed a result
    failed,          \* sessions in which a step failed
    stranded,        \* failed sessions that never reached resetScanState
    readyCount,      \* timer callbacks that wrote the ready message
    skipCount,       \* timer callbacks that found isScanning set
    lastCall,        \* outcome of the latest turn, for the two guards
    ocrText,         \* ParseSpec: the recognised text under construction
    nPieces,         \* ParseSpec: pieces appended to ocrText
    canvas           \* PreSpec: what the canvas was last set up to draw

uiVars == <<isScanning, scanBtnDisabled, pulse, statusText, statusColor>>
resultVars == <<resultsActive, scannedText, scannedColor>>
camVars == <<stream, camPending, metaPending, pickerOpen>>
histVars == <<succeeded, failed, stranded, readyCount, skipCount>>
\* The variables Spec leaves alone.
parseVars == <<ocrText, nPieces, canvas>>
vars == <<stream, camPending, metaPending, pickerOpen, isScanning,
          scanBtnDisabled, pulse, statusText, statusColor, resultsActive,
          scannedText, scannedColor, sessions, enginesLive, timers, succeeded,
          failed, stranded, readyCount, skipCount, lastCall, ocrText,
          nPieces, canvas>>

\* ------------------------------------------------------------ strings
\* Characters String.prototype.trim removes and \s matches.
WhiteSpace == {" ", "\n", "\t", "\r"}
Digits == {"0", "1", "2", "3", "4", "5", "6", "7", "8", "9"}

\* The two prefix markers pushed before a trimmed line.
BonusMarker == <<"STAR", " ">>
TicketMarker == <<"TICKET", " ">>

Max(a, b) == IF a > b THEN a ELSE b

\* line.includes(c)
Includes(s, c) == \E i \in 1..Len(s) : s[i] = c

\* s.trim(): drop leading, then trailing, white space.
RECURSIVE TrimStart(_)
TrimStart(s) ==
    IF s = <<>> THEN s
    ELSE IF Head(s) \in WhiteSpace THEN TrimStart(Tail(s)) ELSE s

RECURSIVE TrimEnd(_)
TrimEnd(s) ==
    IF s = <<>> THEN s
    ELSE IF s[Len(s)] \in WhiteSpace THEN TrimEnd(SubSeq(s, 1, Len(s) - 1))
    ELSE s

Trim(s) == TrimEnd(TrimStart(s))

\* text.split('\n'): the pieces between newlines; "" gives one empty line.
RECURSIVE SplitFrom(_, _, _)
SplitFrom(text, i, cur) ==
    IF i > Len(text) THEN <<cur>>
    ELSE IF text[i] = "\n" THEN <<cur>> \o SplitFrom(text, i + 1, <<>>)
    ELSE SplitFrom(text, i + 1, Append(cur, text[i]))

SplitLines(text) == SplitFrom(text, 1, <<>>)

\* Positions q at which one group \d{1,2}\s+ starting at p can end (q is the
\* index of the character after the group).
GroupEnds(s, p) ==
    {q \in (p + 2)..(Len(s) + 1) :
        \E d \in 1..MaxDigits :
            /\ p + d < q
            /\ \A k \in p..(p + d - 1) : s[k] \in Digits
            /\ \A k \in (p + d)..(q - 1) : s[k] \in WhiteSpace}

\* n consecutive groups can be matched starting at p.
RECURSIVE GroupsFrom(_, _, _)
GroupsFrom(s, p, n) ==
    IF n = 0 THEN TRUE
    ELSE \E q \in GroupEnds(s, p) : GroupsFrom(s, q, n - 1)

\* line.match(/(?:\d{1,2}\s+){4,}/) is not null.
MatchesNumberRun(s) == \E p \in 1..Len(s) : GroupsFrom(s, p, MinGroups)


\* --------------------------------------------------------- the parser
\* Classify with the two tests in the other order.
ClassifyRunFirst(line) ==
    IF MatchesNumberRun(line) THEN "run"
    ELSE IF Includes(line, "[") /\ Includes(line, "]") THEN "bonus"
    ELSE "none"

\* The forEach body's test of one line: which branch pushes, if any.
Classify(line) ==
    IF Includes(line, "[") /\ Includes(line, "]") THEN "bonus"
    ELSE IF MatchesNumberRun(line) THEN "run"
    ELSE "none"

\* ParseDraws that does not push an entry it already holds.
RECURSIVE ParseDrawsUnique(_)
ParseDrawsUnique(lines) ==
    IF lines = <<>> THEN <<>>
    ELSE LET line == lines[Len(lines)]
             c == Classify(line)
             rest == ParseDrawsUnique(SubSeq(lines, 1, Len(lines) - 1))
             entry == IF c = "bonus" THEN BonusMarker \o Trim(line)
                      ELSE TicketMarker \o Trim(line)
         IN  IF c = "none" \/ (\E k \in 1..Len(rest) : rest[k] = entry)
             THEN rest
             ELSE Append(rest, entry)

\* lines.forEach(...): the entries pushed to parsedDraws, in push order.
RECURSIVE ParseDraws(_)
ParseDraws(lines) ==
    IF lines = <<>> THEN <<>>
    ELSE LET line == Head(lines)
             c == Classify(line)
             rest == ParseDraws(Tail(lines))
         IN  IF c = "bonus" THEN <<BonusMarker \o Trim(line)>> \o rest
             ELSE IF c = "run" THEN <<TicketMarker \o Trim(line)>> \o rest
             ELSE rest

\* IsBlank without the trim.
IsEmptyString(text) == text = <<>>

\* text.trim() === ""
IsBlank(text) == Trim(text) = <<>>

NoScan == [kind |-> "none", draws |-> <<>>, raw |-> <<>>]

\* What the three-way if writes to scannedText (content and colour).
Rendering(text) ==
    LET parsedDraws == ParseDraws(SplitLines(text))
    IN  IF Len(parsedDraws) > 0
        THEN [shown |-> [kind |-> "draws", draws |-> parsedDraws, raw |-> text],
              color |-> "accent"]
        ELSE IF IsBlank(text)
        THEN [shown |-> [kind |-> "notext", draws |-> <<>>, raw |-> <<>>],
              color |-> "danger"]
        ELSE [shown |-> [kind |-> "raw", draws |-> <<>>, raw |-> text],
              color |-> "white"]

\* processImageData after worker.terminate(): show the results.
ShowResults(text) ==
    /\ resultsActive' = TRUE
    /\ scannedText' = Rendering(text).shown
    /\ scannedColor' = Rendering(text).color


\* ------------------------------------------------------- the canvas
\* Lengths are whole numbers of 1/Unit pixel: 0.8 and 0.3 of a whole number
\* of pixels, and the halves of what remains, are whole numbers of units.
Unit == 20

\* n pixels, in units.
Px(n) == n * Unit

\* The factors 0.8 and 0.3, as numerator and denominator.
WidthRatio == <<8, 10>>
HeightRatio == <<3, 10>>

\* v * 0.8, v * 0.3
Times(v, ratio) == (v * ratio[1]) \div ratio[2]

\* StartOf without the halving.
StartOfUncentred(size, crop) == size - crop

\* (cw - cropWidth) / 2, (ch - cropHeight) / 2
StartOf(size, crop) == (size - crop) \div 2

\* The source rectangle captureAndScan hands to drawImage for a cw x ch
\* frame: startX, startY, cropWidth, cropHeight.
LiveRegion(cw, ch) ==
    LET cropWidth == Times(Px(cw), WidthRatio)
        cropHeight == Times(Px(ch), HeightRatio)
    IN  [x |-> StartOf(Px(cw), cropWidth), y |-> StartOf(Px(ch), cropHeight),
         w |-> cropWidth, h |-> cropHeight]

\* StillRegion that crops as the live capture does.
StillRegionCropped(w, h) == LiveRegion(w, h)

\* drawImage(img, 0, 0): the whole w x h image, from its origin.
StillRegion(w, h) == [x |-> 0, y |-> 0, w |-> Px(w), h |-> Px(h)]

\* canvas.width = v, canvas.height = v: the attribute is an unsigned long,
\* the fraction of a non-negative number is dropped.
ToUnsignedLong(v) == v \div Unit

\* The filter of the earlier captureAndScan: contrast 180%, brightness 120%.
LiveFilterBright ==
    << [fn |-> "grayscale", pct |-> 100], [fn |-> "contrast", pct |-> 180],
       [fn |-> "brightness", pct |-> 120] >>

\* ctx.filter of captureAndScan: the filter functions, in order.
LiveFilter ==
    << [fn |-> "grayscale", pct |-> 100], [fn |-> "contrast", pct |-> 120] >>

\* ctx.filter of the native photo's img.onload.
StillFilter ==
    << [fn |-> "grayscale", pct |-> 100], [fn |-> "contrast", pct |-> 120] >>

\* Nothing drawn yet: no source, no filter set.
BlankCanvas ==
    [mode |-> "none", src |-> <<0, 0>>, size |-> <<0, 0>>,
     region |-> [x |-> 0, y |-> 0, w |-> 0, h |-> 0], filter |-> <<>>]

\* Sizes video.videoWidth x video.videoHeight can have: 0 x 0 until the
\* metadata is loaded, at least 1 x 1 after.
FrameSizes == {<<0, 0>>} \cup ((1..MaxDim) \X (1..MaxDim))

\* Sizes img.width x img.height of a photo that loaded.
PhotoSizes == (1..MaxDim) \X (1..MaxDim)

\* -------------------------------------------------------- the sessions
\* Texts worker.recognize resolves with in Spec: a blank text, and a bonus
\* line followed by a number run (ParseSpec covers the other texts).
ScanTexts ==
    { <<" ", "\n">>,
      <<"[", "1", "]", "\n", "1", " ", "2", " ", "3", " ", "4", " ", "5">> }

\* ms the clock advances in one Tick.
TickMs == ResetDelay \div TicksPerDelay

\* A session waiting at pc: reading (FileReader), decoding (Image),
\* creating (createWorker), configuring (setParameters), recognizing
\* (recognize), terminating (terminate).
At(pc) == [pc |-> pc, text |-> <<>>]

\* The sessions with s replaced by t, with s removed, with t added.
Replace(s, t) == (sessions (-) SetToBag({s})) (+) SetToBag({t})
Remove(s) == sessions (-) SetToBag({s})
Add(t) == sessions (+) SetToBag({t})

\* Sessions started so far; sessions for which resetScanState has run.
Started == BagCardinality(sessions) + succeeded + failed
Finished == succeeded + failed - stranded

\* The page once loaded: the load listener has called setupCamera, which
\* waits for getUserMedia.
Init ==
    /\ stream = FALSE
    /\ camPending = 1
    /\ metaPending = FALSE
    /\ pickerOpen = FALSE
    /\ isScanning = FALSE
    /\ scanBtnDisabled = TRUE
    /\ pulse = FALSE
    /\ statusText = "Initializing"
    /\ statusColor = "default"
    /\ resultsActive = FALSE
    /\ scannedText = NoScan
    /\ scannedColor = "default"
    /\ sessions = EmptyBag
    /\ enginesLive = 0
    /\ timers = <<>>
    /\ succeeded = 0
    /\ failed = 0
    /\ stranded = 0
    /\ readyCount = 0
    /\ skipCount = 0
    /\ lastCall = "other"
    /\ ocrText = <<>>
    /\ nPieces = 0
    /\ canvas = BlankCanvas

\* ResetScanState scheduling its callback twice.
ResetScanStateTwice ==
    /\ isScanning' = FALSE
    /\ scanBtnDisabled' = FALSE
    /\ pulse' = FALSE
    /\ timers' = Append(Append(timers, ResetDelay), ResetDelay)

\* resetScanState(): clear the flag, enable the button, schedule the callback.
ResetScanState ==
    /\ isScanning' = FALSE
    /\ scanBtnDisabled' = FALSE
    /\ pulse' = FALSE
    /\ timers' = Append(timers, ResetDelay)

\* CaptureRefused without the test of the stream.
CaptureRefusedIgnoresStream == isScanning

\* The guard of captureAndScan: TRUE when the call returns at once.
CaptureRefused == isScanning \/ ~stream

\* setupCamera: getUserMedia resolved.
SetupCameraOk ==
    /\ camPending > 0
    /\ camPending' = camPending - 1
    /\ stream' = TRUE
    /\ metaPending' = TRUE
    /\ lastCall' = "other"
    /\ UNCHANGED <<pickerOpen, uiVars, resultVars, sessions,
                   enginesLive, timers, histVars, parseVars>>

\* setupCamera: getUserMedia rejected; the message depends on the protocol.
SetupCameraFail ==
    /\ camPending > 0
    /\ camPending' = camPending - 1
    /\ statusColor' = "danger"
    /\ \E msg \in {"Camera access denied or unavailable.",
                   "Camera requires HTTPS. Please deploy or run locally."} :
           statusText' = msg
    /\ lastCall' = "other"
    /\ UNCHANGED <<stream, metaPending, pickerOpen, isScanning,
                   scanBtnDisabled, pulse, resultVars, sessions, enginesLive,
                   timers, histVars, parseVars>>

\* video.onloadedmetadata
LoadedMetadata ==
    /\ metaPending
    /\ metaPending' = FALSE
    /\ statusText' = "Ready"
    /\ scanBtnDisabled' = FALSE
    /\ lastCall' = "other"
    /\ UNCHANGED <<stream, camPending, pickerOpen, isScanning, pulse,
                   statusColor, resultVars, sessions, enginesLive, timers,
                   histVars, parseVars>>

\* scanBtn click -> captureAndScan(): the guard, then the synchronous part up
\* to the first await of processImageData, or the catch and finally when the
\* canvas work throws.
ScanClick ==
    /\ ~scanBtnDisabled
    /\ ~pickerOpen
    /\ IF CaptureRefused
       THEN /\ lastCall' = "captureIgnored"
            /\ UNCHANGED <<camVars, uiVars, resultVars, sessions, enginesLive,
                           timers, histVars, parseVars>>
       ELSE /\ Started < MaxSessions
            /\ lastCall' = "captureAccepted"
            /\ \/ /\ isScanning' = TRUE
                  /\ scanBtnDisabled' = TRUE
                  /\ pulse' = TRUE
                  /\ statusText' = "Booting AI Engine..."
                  /\ sessions' = Add(At("creating"))
                  /\ UNCHANGED <<timers, failed>>
               \/ /\ statusText' = "Processing image..."
                  /\ ResetScanState
                  /\ failed' = failed + 1
                  /\ UNCHANGED sessions
            /\ UNCHANGED <<camVars, statusColor, resultVars, enginesLive,
                           succeeded, stranded, readyCount, skipCount,
                           parseVars>>

\* nativeCamBtn click: stop the live feed, open the file picker.
NativeCamClick ==
    /\ ~pickerOpen
    /\ pickerOpen' = TRUE
    /\ stream' = FALSE
    /\ scanBtnDisabled' = IF stream THEN TRUE ELSE scanBtnDisabled
    /\ lastCall' = "other"
    /\ UNCHANGED <<camPending, metaPending, isScanning, pulse,
                   statusText, statusColor, resultVars, sessions, enginesLive,
                   timers, histVars, parseVars>>

\* NativeChangeEmpty without the test of the file: the session is started.
NativeChangeEmptyStartsSession ==
    /\ pickerOpen
    /\ Started < MaxSessions
    /\ pickerOpen' = FALSE
    /\ isScanning' = TRUE
    /\ statusText' = "Loading native photo..."
    /\ pulse' = TRUE
    /\ sessions' = Add(At("reading"))
    /\ lastCall' = "changeEmpty"
    /\ UNCHANGED <<stream, camPending, metaPending, scanBtnDisabled,
                   statusColor, resultVars, enginesLive, timers, histVars,
                   parseVars>>

\* nativeCameraInput change with no file: the handler returns.
NativeChangeEmpty ==
    /\ pickerOpen
    /\ pickerOpen' = FALSE
    /\ lastCall' = "changeEmpty"
    /\ UNCHANGED <<stream, camPending, metaPending, uiVars,
                   resultVars, sessions, enginesLive, timers, histVars,
                   parseVars>>

\* nativeCameraInput change with a file: start reading it.
NativeChangeFile ==
    /\ pickerOpen
    /\ Started < MaxSessions
    /\ pickerOpen' = FALSE
    /\ isScanning' = TRUE
    /\ statusText' = "Loading native photo..."
    /\ pulse' = TRUE
    /\ sessions' = Add(At("reading"))
    /\ lastCall' = "other"
    /\ UNCHANGED <<stream, camPending, metaPending, scanBtnDisabled,
                   statusColor, resultVars, enginesLive, timers, histVars,
                   parseVars>>

\* A native session ends with no callback left to run: nothing registered
\* handles the failure, and resetScanState is never called.
Strand(s) ==
    /\ sessions' = Remove(s)
    /\ failed' = failed + 1
    /\ stranded' = stranded + 1
    /\ lastCall' = "other"
    /\ UNCHANGED <<camVars, isScanning, scanBtnDisabled, pulse, statusColor,
                   resultVars, enginesLive, timers, succeeded, readyCount,
                   skipCount, parseVars>>

\* reader.onload: the file was read; img.src is set and decoding starts.
FileReadOk ==
    \E s \in BagToSet(sessions) :
        /\ s.pc = "reading"
        /\ sessions' = Replace(s, At("decoding"))
        /\ lastCall' = "other"
        /\ UNCHANGED <<camVars, uiVars, resultVars, enginesLive, timers,
                       histVars, parseVars>>

\* The FileReader fails: no onerror handler is registered, nothing runs.
FileReadFail ==
    \E s \in BagToSet(sessions) :
        /\ s.pc = "reading"
        /\ Strand(s)
        /\ UNCHANGED statusText

\* img.onload: draw to the canvas, then processImageData up to its first
\* await.
ImageLoaded ==
    \E s \in BagToSet(sessions) :
        /\ s.pc = "decoding"
        /\ statusText' = "Booting AI Engine..."
        /\ sessions' = Replace(s, At("creating"))
        /\ lastCall' = "other"
        /\ UNCHANGED <<camVars, isScanning, scanBtnDisabled, pulse,
                       statusColor, resultVars, enginesLive, timers, histVars,
                       parseVars>>

\* img.onload whose canvas work throws, before or after the status line is
\* written: the handler's promise is rejected with nobody listening.
ImageLoadedThrows ==
    \E s \in BagToSet(sessions) :
        /\ s.pc = "decoding"
        /\ Strand(s)
        /\ statusText' \in {statusText, "Analyzing HD Photo..."}

\* The image does not decode: no onerror handler is registered.
ImageDecodeFail ==
    \E s \in BagToSet(sessions) :
        /\ s.pc = "decoding"
        /\ Strand(s)
        /\ UNCHANGED statusText

\* FailSession that goes on to render the text of the failed session.
FailSessionShowsResults(s) ==
    /\ statusColor' = "danger"
    /\ statusText' = "Failed to process image."
    /\ ResetScanState
    /\ ShowResults(s.text)
    /\ sessions' = Remove(s)
    /\ failed' = failed + 1
    /\ lastCall' = "other"
    /\ UNCHANGED <<camVars, enginesLive, succeeded, stranded, readyCount,
                   skipCount, parseVars>>

\* processImageData's catch, then the caller's resetScanState.
FailSession(s) ==
    /\ statusColor' = "danger"
    /\ statusText' = "Failed to process image."
    /\ ResetScanState
    /\ sessions' = Remove(s)
    /\ failed' = failed + 1
    /\ lastCall' = "other"
    /\ UNCHANGED <<camVars, resultVars, enginesLive, succeeded, stranded,
                   readyCount, skipCount, parseVars>>

\* Tesseract.createWorker resolved: setParameters is called.
CreateWorkerOk ==
    \E s \in BagToSet(sessions) :
        /\ s.pc = "creating"
        /\ sessions' = Replace(s, At("configuring"))
        /\ enginesLive' = enginesLive + 1
        /\ lastCall' = "other"
        /\ UNCHANGED <<camVars, uiVars, resultVars, timers, histVars,
                       parseVars>>

\* Tesseract.createWorker rejected.
CreateWorkerFail ==
    \E s \in BagToSet(sessions) :
        /\ s.pc = "creating"
        /\ FailSession(s)

\* worker.setParameters resolved: recognize is called.
SetParametersOk ==
    \E s \in BagToSet(sessions) :
        /\ s.pc = "configuring"
        /\ sessions' = Replace(s, At("recognizing"))
        /\ lastCall' = "other"
        /\ UNCHANGED <<camVars, uiVars, resultVars, enginesLive, timers,
                       histVars, parseVars>>

\* worker.setParameters rejected.
SetParametersFail ==
    \E s \in BagToSet(sessions) :
        /\ s.pc = "configuring"
        /\ FailSession(s)

\* The worker's logger reports "recognizing text".
RecognizeProgress ==
    \E s \in BagToSet(sessions) :
        /\ s.pc = "recognizing"
        /\ statusText' = "Extracting numbers..."
        /\ lastCall' = "other"
        /\ UNCHANGED <<camVars, isScanning, scanBtnDisabled, pulse,
                       statusColor, resultVars, sessions, enginesLive, timers,
                       histVars, parseVars>>

\* worker.recognize resolved with a text: terminate is called.
RecognizeOk ==
    \E s \in BagToSet(sessions) :
        /\ s.pc = "recognizing"
        /\ \E text \in ScanTexts :
               sessions' = Replace(s, [pc |-> "terminating", text |-> text])
        /\ lastCall' = "other"
        /\ UNCHANGED <<camVars, uiVars, resultVars, enginesLive, timers,
                       histVars, parseVars>>

\* worker.recognize rejected.
RecognizeFail ==
    \E s \in BagToSet(sessions) :
        /\ s.pc = "recognizing"
        /\ FailSession(s)

\* worker.terminate resolved: show the results, then the caller's
\* resetScanState.
TerminateOk ==
    \E s \in BagToSet(sessions) :
        /\ s.pc = "terminating"
        /\ enginesLive' = enginesLive - 1
        /\ ShowResults(s.text)
        /\ statusText' = "Scan Complete"
        /\ ResetScanState
        /\ sessions' = Remove(s)
        /\ succeeded' = succeeded + 1
        /\ lastCall' = "other"
        /\ UNCHANGED <<camVars, statusColor, failed, stranded, readyCount,
                       skipCount, parseVars>>

\* The setTimeout callback of resetScanState, for the oldest timeout.
TimerFire ==
    /\ timers # <<>>
    /\ Head(timers) = 0
    /\ timers' = Tail(timers)
    /\ IF ~isScanning
       THEN /\ statusColor' = "accent"
            /\ statusText' = "Ready for next scan"
            /\ readyCount' = readyCount + 1
            /\ UNCHANGED skipCount
       ELSE /\ skipCount' = skipCount + 1
            /\ UNCHANGED <<statusColor, statusText, readyCount>>
    /\ lastCall' = "other"
    /\ UNCHANGED <<camVars, isScanning, scanBtnDisabled, pulse, resultVars,
                   sessions, enginesLive, succeeded, failed, stranded,
                   parseVars>>

\* Time passes: every pending timeout gets TickMs closer.
Tick ==
    /\ \E k \in 1..Len(timers) : timers[k] > 0
    /\ timers' = [k \in 1..Len(timers) |-> Max(0, timers[k] - TickMs)]
    /\ lastCall' = "other"
    /\ UNCHANGED <<camVars, uiVars, resultVars, sessions, enginesLive,
                   histVars, parseVars>>

\* stopCamBtn click: stop the stream, or restart the camera.
StopCamClick ==
    /\ ~pickerOpen
    /\ IF stream
       THEN /\ stream' = FALSE
            /\ statusText' = "Camera powered off."
            /\ scanBtnDisabled' = TRUE
            /\ UNCHANGED camPending
       ELSE /\ camPending < MaxCamPending
            /\ statusText' = "Restarting camera..."
            /\ camPending' = camPending + 1
            /\ UNCHANGED <<stream, scanBtnDisabled>>
    /\ lastCall' = "other"
    /\ UNCHANGED <<metaPending, pickerOpen, isScanning, pulse,
                   statusColor, resultVars, sessions, enginesLive, timers,
                   histVars, parseVars>>

Next ==
    \/ SetupCameraOk
    \/ SetupCameraFail
    \/ LoadedMetadata
    \/ ScanClick
    \/ NativeCamClick
    \/ NativeChangeEmpty
    \/ NativeChangeFile
    \/ StopCamClick
    \/ TimerFire
    \/ Tick
    \/ FileReadOk
    \/ FileReadFail
    \/ ImageLoaded
    \/ ImageLoadedThrows
    \/ ImageDecodeFail
    \/ CreateWorkerOk
    \/ CreateWorkerFail
    \/ SetParametersOk
    \/ SetParametersFail
    \/ RecognizeProgress
    \/ RecognizeOk
    \/ RecognizeFail
    \/ TerminateOk

Spec == Init /\ [][Next]_vars

\* ------------------------------------------------- the parser's inputs
\* What a recognised text is built from: single characters, and one run of
\* three number groups so that runs of four and five fit in MaxPieces.
Pieces ==
    { <<"1">>, <<" ">>, <<"a">>, <<"[">>, <<"]">>, <<"\n">>,
      <<"1", " ", "1", " ", "1", " ">> }

\* The recognised text grows by one piece.
AppendPiece ==
    /\ scannedText.kind = "none"
    /\ nPieces < MaxPieces
    /\ \E p \in Pieces : ocrText' = ocrText \o p
    /\ nPieces' = nPieces + 1
    /\ UNCHANGED <<camVars, uiVars, resultVars, sessions, enginesLive, timers,
                   histVars, lastCall, canvas>>

\* processImageData's handling of result.data.text, for the text built.
RenderText ==
    /\ scannedText.kind = "none"
    /\ ShowResults(ocrText)
    /\ statusText' = "Scan Complete"
    /\ UNCHANGED <<camVars, isScanning, scanBtnDisabled, pulse, statusColor,
                   sessions, enginesLive, timers, histVars, lastCall,
                   parseVars>>

ParseNext == AppendPiece \/ RenderText

ParseSpec == Init /\ [][ParseNext]_vars

\* ------------------------------------------------ the canvas's inputs
\* captureAndScan's canvas work on the current frame: size the canvas to the
\* crop, set the filter, draw the crop.
CaptureFrame ==
    /\ \E f \in FrameSizes :
           LET r == LiveRegion(f[1], f[2])
           IN  canvas' = [mode |-> "live", src |-> f,
                          size |-> <<ToUnsignedLong(r.w), ToUnsignedLong(r.h)>>,
                          region |-> r, filter |-> LiveFilter]
    /\ UNCHANGED <<camVars, uiVars, resultVars, sessions, enginesLive, timers,
                   histVars, lastCall, ocrText, nPieces>>

\* img.onload's canvas work on the photo: size the canvas to the photo, set
\* the filter, draw the photo.
DrawPhoto ==
    /\ \E f \in PhotoSizes :
           canvas' = [mode |-> "still", src |-> f, size |-> f,
                      region |-> StillRegion(f[1], f[2]),
                      filter |-> StillFilter]
    /\ UNCHANGED <<camVars, uiVars, resultVars, sessions, enginesLive, timers,
                   histVars, lastCall, ocrText, nPieces>>

PreNext == CaptureFrame \/ DrawPhoto

PreSpec == Init /\ [][PreNext]_vars


\* ------------------------------------------------------------- claims
\* Sessions holding a worker: created, not yet terminated.
HoldingEngine ==
    {s \in BagToSet(sessions) :
        s.pc \in {"configuring", "recognizing", "terminating"}}

RECURSIVE CopiesOf(_)
CopiesOf(S) ==
    IF S = {} THEN 0
    ELSE LET s == CHOOSE x \in S : TRUE
         IN  CopiesIn(s, sessions) + CopiesOf(S \ {s})

\* C1: at most one scan session is in flight in every reachable state.
C1_AtMostOneSessionInFlight == BagCardinality(sessions) <= 1

C3_EverySessionReturnsToIdle == (sessions = EmptyBag) => ~isScanning

\* C4: the step in which a session fails leaves the status showing
\* 'Failed to process image.'.
C4_FailureShowsFailedMessage ==
    [][ failed' > failed => statusText' = "Failed to process image." ]_vars

\* C9: every live engine belongs to a session that has not ended yet.
C9_EnginesReleasedAtSessionEnd == enginesLive = CopiesOf(HoldingEngine)

StepOrder ==
    <<"reading", "decoding", "creating", "configuring", "recognizing",
      "terminating">>

\* The place of a waiting point in StepOrder.
StepRank(pc) == CHOOSE k \in 1..Len(StepOrder) : StepOrder[k] = pc

\* The waiting sessions the bag b has more of than the bag a.
Gained(a, b) == {t \in BagToSet(b) : CopiesIn(t, b) > CopiesIn(t, a)}

\* C11: the steps of a session run in order and a failure ends it: a session
\* reaches a waiting point only from the one before it (or by starting), an
\* engine is created only by a session waiting for its creation, a result is
\* written only by a session that succeeds, and the step in which a session
\* fails moves no session forward, creates no engine and writes no result.
C11_StepsInOrderFailureStops ==
    [][ LET arrived == Gained(sessions, sessions')
            left == Gained(sessions', sessions)
            same == BagCardinality(sessions') = BagCardinality(sessions)
            more == BagCardinality(sessions') = BagCardinality(sessions) + 1
        IN  /\ \A t \in arrived :
                   /\ failed' = failed
                   /\ \/ /\ same
                         /\ \E s \in left : StepRank(t.pc) = StepRank(s.pc) + 1
                      \/ /\ more
                         /\ left = {}
                         /\ t.pc \in {"reading", "creating"}
            /\ enginesLive' > enginesLive
                   => /\ failed' = failed
                      /\ \E s \in left : s.pc = "creating"
            /\ resultVars' # resultVars
                   => /\ failed' = failed
                      /\ succeeded' = succeeded + 1
                      /\ arrived = {}
                      /\ \E s \in left : s.pc = "terminating"
            /\ failed' > failed
                   => /\ UNCHANGED <<resultVars, enginesLive, succeeded>>
                      /\ arrived = {} ]_vars

\* A session failed after its engine was created (in configuration or in
\* recognition) and nothing was written to the results area.
C11_Witness ==
    /\ failed >= 1
    /\ succeeded = 0
    /\ enginesLive >= 1
    /\ sessions = EmptyBag
    /\ statusText = "Failed to process image."
    /\ ~resultsActive
    /\ scannedText = NoScan

\* video.videoWidth and video.videoHeight are 0: the stream was assigned to
\* the video and its metadata is not loaded yet.
FrameEmpty == metaPending

\* C14: a live capture accepted while the frame has no width or height
\* aborts before OCR: the session ends in Failed within the call, no session
\* goes on to engine creation or recognition, no engine is created.
C14_EmptyRegionAborts ==
    [][ (lastCall' = "captureAccepted" /\ FrameEmpty)
        => /\ failed' = failed + 1
           /\ sessions' = sessions
           /\ enginesLive' = enginesLive ]_vars

\* C16: a change event that delivers no file changes no session state: no
\* session starts, the flag, the status and the button stay as they were,
\* no engine is created, no timeout is scheduled, no result is written.
C16_EmptySelectionIsNoOp ==
    [][ lastCall' = "changeEmpty"
        => UNCHANGED <<isScanning, scanBtnDisabled, pulse, statusText,
                       statusColor, resultsActive, scannedText, scannedColor,
                       sessions, enginesLive, timers, succeeded, failed,
                       stranded, readyCount, skipCount>> ]_vars

\* An empty selection was delivered while nothing was running: still idle,
\* the status still that of the ready camera.
C16_Witness ==
    /\ lastCall = "changeEmpty"
    /\ ~isScanning
    /\ ~pulse
    /\ statusText = "Ready"
    /\ sessions = EmptyBag
    /\ enginesLive = 0

\* C17: while a session is in progress the capture button is disabled.
C17_ButtonDisabledWhileScanning == (sessions # EmptyBag) => scanBtnDisabled

\* C18: the flag reflects the sessions in flight: when isScanning is false
\* no session has a step pending.
C18_FlagClearMeansNoSession == ~isScanning => (sessions = EmptyBag)

\* The two messages a finished session leaves in the status line.
TerminalStatus == {"Scan Complete", "Failed to process image."}

\* C19: the ready message replaces a terminal status only when the delay of
\* every finished session has run out: no timeout scheduled by a later
\* session is still counting when an earlier one writes the ready message.
C19_TerminalStatusShownFullDelay ==
    [][ (readyCount' > readyCount /\ statusText \in TerminalStatus)
        => \A k \in 1..Len(timers') : timers'[k] = 0 ]_vars

\* C20: a timeout callback that runs while a session is in progress leaves
\* the status text and colour unchanged.
C20_TimerSilentWhileScanning ==
    [][ ( /\ readyCount' + skipCount' > readyCount + skipCount
          /\ sessions # EmptyBag )
        => UNCHANGED <<statusText, statusColor>> ]_vars

\* ---------------------------------------------- claims about the parser
\* The lines of the text that RenderText rendered.
OcrLines == SplitLines(ocrText)
Rendered == scannedText.kind # "none"

HasBothBrackets(line) ==
    /\ \E k \in 1..Len(line) : line[k] = "["
    /\ \E k \in 1..Len(line) : line[k] = "]"

\* The line qualifies under the bracket rule or the number-run rule.
Qualifies(line) == HasBothBrackets(line) \/ MatchesNumberRun(line)

\* Positions reached after n consecutive groups \d{1,2}\s+ starting at p.
RECURSIVE AfterGroups(_, _, _)
AfterGroups(s, p, n) ==
    IF n = 0 THEN {p}
    ELSE UNION {AfterGroups(s, q, n - 1) : q \in GroupEnds(s, p)}

\* The line holds five numbers of one or two digits separated by white
\* space: four groups followed by a digit.
HasRunOfFive(s) ==
    \E p \in 1..Len(s) :
        \E q \in AfterGroups(s, p, 4) : q <= Len(s) /\ s[q] \in Digits

\* The line without its leading and trailing white space, stated by the
\* positions of its first and last other character.
Stripped(s) ==
    LET ink == {k \in 1..Len(s) : s[k] \notin WhiteSpace}
    IN  IF ink = {} THEN <<>>
        ELSE SubSeq(s, CHOOSE a \in ink : \A b \in ink : a <= b,
                       CHOOSE a \in ink : \A b \in ink : a >= b)

\* Qualifying lines among the first i lines.
Rank(lines, i) == Cardinality({j \in 1..i : Qualifies(lines[j])})

\* The entry a qualifying line stands for.
Tagged(line) ==
    IF HasBothBrackets(line) THEN BonusMarker \o Stripped(line)
    ELSE TicketMarker \o Stripped(line)

AllWhiteSpace(text) == \A k \in 1..Len(text) : text[k] \in WhiteSpace

\* C5: a successful recognition renders the draws summary when a line
\* qualifies, else 'No text found' when the text is empty or white space
\* only, else the raw text; blank text never gives the raw fallback.
C5_ResultPriority ==
    Rendered =>
        LET anyDraw == \E i \in 1..Len(OcrLines) : Qualifies(OcrLines[i])
            blank == AllWhiteSpace(ocrText)
        IN  /\ scannedText.kind \in {"draws", "notext", "raw"}
            /\ anyDraw => scannedText.kind = "draws"
                          /\ Len(scannedText.draws) > 0
            /\ (~anyDraw /\ blank) => scannedText.kind = "notext"
            /\ (~anyDraw /\ ~blank) => scannedText.kind = "raw"
                                       /\ scannedText.raw = ocrText
            /\ blank => scannedText.kind = "notext"

\* A text of white space only, not empty, was rendered as 'No text found'.
C5_Witness ==
    /\ scannedText.kind = "notext"
    /\ Len(ocrText) >= 2
    /\ AllWhiteSpace(ocrText)

\* C6: of the lines without both brackets, exactly those holding a run of
\* five numbers become number-run entries.
C6_NumberRunIffFiveNumbers ==
    Rendered =>
        Cardinality({k \in 1..Len(scannedText.draws) :
                        scannedText.draws[k][1] = TicketMarker[1]})
        = Cardinality({i \in 1..Len(OcrLines) :
                        /\ ~HasBothBrackets(OcrLines[i])
                        /\ HasRunOfFive(OcrLines[i])})

\* C7: every line with both brackets gives a bonus entry made of the bonus
\* marker and the whole trimmed line, whatever numbers the line holds.
C7_BracketLineIsBonus ==
    Rendered =>
        \A i \in 1..Len(OcrLines) :
            HasBothBrackets(OcrLines[i]) =>
                /\ scannedText.kind = "draws"
                /\ Rank(OcrLines, i) <= Len(scannedText.draws)
                /\ scannedText.draws[Rank(OcrLines, i)]
                       = BonusMarker \o Stripped(OcrLines[i])

\* A line with both brackets that also matches the number-run expression
\* was rendered.
C7_Witness ==
    /\ Rendered
    /\ \E i \in 1..Len(OcrLines) :
           /\ HasBothBrackets(OcrLines[i])
           /\ MatchesNumberRun(OcrLines[i])

\* C8: the entries are the qualifying lines, one entry per occurrence, in
\* the order of the lines; other lines give no entry.
C8_DrawsAreQualifyingLinesInOrder ==
    Rendered =>
        LET Q == {i \in 1..Len(OcrLines) : Qualifies(OcrLines[i])}
            draws == IF scannedText.kind = "draws" THEN scannedText.draws
                     ELSE <<>>
        IN  /\ Len(draws) = Cardinality(Q)
            /\ \A i \in Q : draws[Rank(OcrLines, i)] = Tagged(OcrLines[i])

\* The same qualifying line twice, with a line that is no draw between
\* or around them, gave two equal entries.
C8_Witness ==
    /\ scannedText.kind = "draws"
    /\ Len(scannedText.draws) = 2
    /\ scannedText.draws[1] = scannedText.draws[2]
    /\ Len(OcrLines) >= 2

\* ---------------------------------------------- claims about the canvas
\* The source's width and height in units.
SrcW == Px(canvas.src[1])
SrcH == Px(canvas.src[2])

\* C12: for a live capture of a W x H frame, W > 0 and H > 0, the crop region
\* is 0.8 W wide and 0.3 H high, its origin is ((W - 0.8 W) / 2,
\* (H - 0.3 H) / 2), and it lies inside the frame.
C12_CropIsCentredFraction ==
    (canvas.mode = "live" /\ canvas.src[1] > 0 /\ canvas.src[2] > 0) =>
        LET r == canvas.region
        IN  /\ 10 * r.w = 8 * SrcW
            /\ 10 * r.h = 3 * SrcH
            /\ 2 * r.x = SrcW - r.w
            /\ 2 * r.y = SrcH - r.h
            /\ r.x >= 0
            /\ r.y >= 0
            /\ r.x + r.w <= SrcW
            /\ r.y + r.h <= SrcH

\* A frame was cropped whose crop is no whole number of pixels in either
\* direction.
C12_Witness ==
    /\ canvas.mode = "live"
    /\ canvas.src[1] > 0
    /\ canvas.region.w % Unit # 0
    /\ canvas.region.h % Unit # 0
    /\ canvas.region.x % Unit # 0

\* C13 as stated: grayscale, then contrast 180% and brightness 120% for a
\* live capture; grayscale, then contrast 150% and no brightness for a still
\* photo.
C13_FilterChainAsStated ==
    /\ canvas.mode = "live" =>
           canvas.filter = << [fn |-> "grayscale", pct |-> 100],
                              [fn |-> "contrast", pct |-> 180],
                              [fn |-> "brightness", pct |-> 120] >>
    /\ canvas.mode = "still" =>
           canvas.filter = << [fn |-> "grayscale", pct |-> 100],
                              [fn |-> "contrast", pct |-> 150] >>

\* C13 amended: in both modes the chain is full grayscale, then contrast
\* 120%, and nothing else.
C13_FilterChainGrayThenContrast ==
    canvas.mode \in {"live", "still"} =>
        /\ Len(canvas.filter) = 2
        /\ canvas.filter[1] = [fn |-> "grayscale", pct |-> 100]
        /\ canvas.filter[2] = [fn |-> "contrast", pct |-> 120]
        /\ \A k \in 1..Len(canvas.filter) : canvas.filter[k].fn # "brightness"

\* A live frame with pixels was filtered.
C13_Witness ==
    /\ canvas.mode = "live"
    /\ canvas.size[1] > 0
    /\ canvas.size[2] > 0
    /\ canvas.filter # <<>>

\* C15: for a still photo the region is the whole image, from the origin,
\* and the canvas has the image's size: nothing is cropped.
C15_StillRegionIsFullImage ==
    canvas.mode = "still" =>
        /\ canvas.region.x = 0
        /\ canvas.region.y = 0
        /\ canvas.region.w = SrcW
        /\ canvas.region.h = SrcH
        /\ canvas.size = canvas.src

\* A photo that is not square was drawn.
C15_Witness ==
    /\ canvas.mode = "still"
    /\ canvas.src[1] > canvas.src[2]
    /\ canvas.region.w > canvas.region.h

====
